---- MODULE Spec2Model ----
(***************************************************************************)
(* Model of ConversationController                                         *)
(* (backend/app/controllers/conversation_controller.py).                   *)
(*                                                                         *)
(* The controller is called from request handlers; every call runs in a   *)
(* worker p.  A call that makes several external calls (store, AI         *)
(* service) is one action per external call, so that calls of different   *)
(* workers interleave exactly where the code gives up control.  The       *)
(* collaborators that are not part of the controller file (Conversation,  *)
(* the repositories, the scoring and recommendation services) are         *)
(* modelled from the specification's contracts.                            *)
(*                                                                         *)
(* Optional values (Python None) are sequences of length at most one.     *)
(* Message timestamps are not modelled: no branch of the controller reads *)
(* them.                                                                   *)
(***************************************************************************)
EXTENDS Integers, Sequences, FiniteSets, TLC

\* ---------------------------------------------------------------- bounds
MaxCalls == 3          \* calls started in one behaviour
MaxConvs == 2          \* conversations the store can hold (ids 1..MaxConvs)
ListedConvs == 5       \* conversations of one user in the listing scenario

Workers == {"w1", "w2"}

\* ---------------------------------------------------------------- inputs
Users == {"u1", "u2"}
Topics == {"travel"}
Levels == {"N5", "N4", "N3", "N2", "N1"}
LevelInputs == {"N4", "X9"}
Texts == {"t1", "t2"}
Replies == {"r1"}
ResponseTimes == {<<>>, <<1200>>}
CidInputs == 1..MaxConvs
Skips == {-1, 0, 1}
Limits == {0, 1}
AnalysisResults ==
    { [grammar |-> 60, vocabulary |-> 90, naturalness |-> 75],
      [grammar |-> 30, vocabulary |-> 40, naturalness |-> 20] }

None == <<>>
Some(x) == <<x>>

VARIABLES store, attrs, calls, ncalls

vars == <<store, attrs, calls, ncalls>>

\* ------------------------------------------------- collaborators (models)
\* MessageAnalysis(grammar, vocabulary, naturalness, response_time)
MessageAnalysis(data, response_time) ==
    [grammar |-> data.grammar, vocabulary |-> data.vocabulary,
     naturalness |-> data.naturalness, response_time |-> response_time]

\* Message(role, content, timestamp, analysis)
Message(role, content, analysis) ==
    [role |-> role, content |-> content, analysis |-> analysis]

\* Conversation(user_id, topic, level): empty history, no score
Conversation(user_id, topic, level) ==
    [id |-> None, user_id |-> user_id, topic |-> topic, level |-> level,
     messages |-> <<>>, score |-> None, recommendations |-> <<>>]

\* Conversation.add_message
add_message(conv, msg) == [conv EXCEPT !.messages = Append(@, msg)]

\* Conversation.update_score
update_score(conv, score) == [conv EXCEPT !.score = Some(score)]

\* Conversation.get_chat_history: list of {role, content}
get_chat_history(conv) ==
    [i \in 1..Len(conv.messages) |->
        [role |-> conv.messages[i].role, content |-> conv.messages[i].content]]

RECURSIVE SumComposite(_)
SumComposite(as) ==
    IF as = <<>> THEN 0
    ELSE (as[1].grammar + as[1].vocabulary + as[1].naturalness) \div 3
         + SumComposite(Tail(as))

IsContributing(m) == m.role = "user" /\ m.analysis # None

\* ScoringService.calculate_overall_score: mean of the per-message
\* composites of the analysed user messages, baseline 0 when there is none
calculate_overall_score(messages) ==
    LET contrib == SelectSeq(messages, IsContributing)
        as == [i \in 1..Len(contrib) |-> contrib[i].analysis[1]]
    IN  [overall |-> IF Len(contrib) = 0 THEN 0
                     ELSE SumComposite(as) \div Len(contrib),
         count |-> Len(contrib)]

\* ConversationRepository.find_by_id: a copy of the stored aggregate or None
find_by_id(s, id) == IF id \in DOMAIN s THEN Some(s[id]) ELSE None

\* ConversationRepository.update: replaces the aggregate stored under id
repo_update(s, id, conv) == [s EXCEPT ![id] = conv]

\* ConversationRepository.create: stores under the next free id
NextId(s) == Cardinality(DOMAIN s) + 1
repo_create(s, conv) ==
    [i \in DOMAIN s \cup {NextId(s)} |->
        IF i \in DOMAIN s THEN s[i] ELSE [conv EXCEPT !.id = Some(NextId(s))]]

\* Conversation.add_recommendations: appends to the stored recommendations
add_recommendations(conv, recs) == [conv EXCEPT !.recommendations = @ \o recs]

\* ConversationRepository.find_by_user_id: the user's conversations in the
\* store's order (ascending id), skip entries dropped, at most limit kept
RECURSIVE OfUser(_, _, _)
OfUser(s, user_id, i) ==
    IF i > Cardinality(DOMAIN s) THEN <<>>
    ELSE (IF s[i].user_id = user_id THEN <<s[i]>> ELSE <<>>)
         \o OfUser(s, user_id, i + 1)

Page(seq, skip, limit) ==
    IF skip < 0 \/ limit <= 0 \/ skip >= Len(seq) THEN <<>>
    ELSE SubSeq(seq, skip + 1,
                IF skip + limit < Len(seq) THEN skip + limit ELSE Len(seq))

find_by_user_id(s, user_id, skip, limit) == Page(OfUser(s, user_id, 1), skip, limit)

\* ConversationRepository.get_user_statistics: number of conversations and
\* the score of the most recent one
get_statistics(s, user_id) ==
    LET own == OfUser(s, user_id, 1)
    IN  [total_conversations |-> Len(own),
         latest_score |-> IF own = <<>> THEN None ELSE own[Len(own)].score]

\* course catalogue (CourseRepository)
Catalog ==
    << [id |-> "k1", level |-> "N4"], [id |-> "k2", level |-> "N3"],
       [id |-> "k3", level |-> "N1"] >>

LevelRank(l) ==
    CASE l = "N5" -> 1 [] l = "N4" -> 2 [] l = "N3" -> 3 [] l = "N2" -> 4
      [] l = "N1" -> 5 [] OTHER -> 0

\* CourseRepository.find_by_level
course_find_by_level(level) == SelectSeq(Catalog, LAMBDA c : c.level = level)

\* CourseRepository.find_by_id
course_find_by_id(id) ==
    LET hit == SelectSeq(Catalog, LAMBDA c : c.id = id)
    IN  IF hit = <<>> THEN None ELSE Some(hit[1])

\* RecommendationService.generate_recommendations: one recommendation per
\* candidate course whose level is the conversation's or adjacent to it
generate_recommendations(conv, courses) ==
    LET ok == SelectSeq(courses, LAMBDA c :
                  LevelRank(c.level) - LevelRank(conv.level) \in {-1, 0, 1})
    IN  [i \in 1..Len(ok) |->
            [course_id |-> ok[i].id,
             score |-> IF conv.score = None THEN 0 ELSE conv.score[1].overall]]

\* ------------------------------------------------------------ call frames
NoArgs ==
    [cid |-> 0, text |-> "", rt |-> None, user |-> "", topic |-> "",
     level |-> "", skip |-> 0, limit |-> 0]

Idle ==
    [op |-> "none", pc |-> "idle", outcome |-> "none", args |-> NoArgs,
     conv |-> None, pre |-> None, history |-> <<>>, reply |-> None,
     log |-> <<>>, result |-> None]

Ext(fn, key) == [fn |-> fn, key |-> key]

CanBegin(p) == calls[p].pc \in {"idle", "done"} /\ ncalls < MaxCalls

Raise(frame, err) == [frame EXCEPT !.pc = "done", !.outcome = err]
Return(frame, value) ==
    [frame EXCEPT !.pc = "done", !.outcome = "ok", !.result = Some(value)]

Count(log, fn) == Len(SelectSeq(log, LAMBDA e : e.fn = fn))

\* ConversationController.__init__: the attributes the constructor sets
ConstructorAttrs ==
    {"conversation_repo", "ai_service", "scoring_service",
     "recommendation_service"}

Init ==
    /\ store = << >>
    /\ attrs \in {ConstructorAttrs, ConstructorAttrs \cup {"course_repo"}}
    /\ calls = [p \in Workers |-> Idle]
    /\ ncalls = 0

\* ------------------------------------------------------ create_conversation
\* lines 53-60: Conversation(...) then conversation_repo.create
create_invalid(p, frame) ==
    /\ frame.args.level \notin Levels
    /\ calls' = [calls EXCEPT ![p] = Raise(frame, "ValidationError")]
    /\ UNCHANGED store

\* (variant) topic and level are passed in each other's place
create_stored_swapped(p, frame) ==
    /\ frame.args.level \in Levels
    /\ Cardinality(DOMAIN store) < MaxConvs
    /\ store' = repo_create(store,
          Conversation(frame.args.user, frame.args.level, frame.args.topic))
    /\ calls' = [calls EXCEPT ![p] =
          Return([frame EXCEPT !.log = <<Ext("create", NextId(store))>>],
                 store'[NextId(store)])]

create_stored(p, frame) ==
    /\ frame.args.level \in Levels
    /\ Cardinality(DOMAIN store) < MaxConvs
    /\ store' = repo_create(store,
          Conversation(frame.args.user, frame.args.topic, frame.args.level))
    /\ calls' = [calls EXCEPT ![p] =
          Return([frame EXCEPT !.log = <<Ext("create", NextId(store))>>],
                 store'[NextId(store)])]

create_store_failed(p, frame) ==
    /\ frame.args.level \in Levels
    /\ calls' = [calls EXCEPT ![p] =
          Raise([frame EXCEPT !.log = <<Ext("create", NextId(store))>>],
                "StoreFailure")]
    /\ UNCHANGED store

create_conversation(p, user_id, topic, level) ==
    /\ CanBegin(p)
    /\ ncalls' = ncalls + 1
    /\ LET frame == [Idle EXCEPT !.op = "create_conversation",
                        !.args = [NoArgs EXCEPT !.user = user_id,
                                     !.topic = topic, !.level = level]]
       IN  \/ create_invalid(p, frame)
           \/ create_stored(p, frame)
           \/ create_store_failed(p, frame)
    /\ UNCHANGED attrs

\* ------------------------------------------------------------ send_message
\* (variant) the lookup result is never tested
NotFound_never(conversation) == FALSE

\* line 85: if not conversation
NotFound(conversation) == conversation = None

\* lines 83-86: load, not found -> ValueError
send_message(p, conversation_id, message_content, response_time) ==
    /\ CanBegin(p)
    /\ ncalls' = ncalls + 1
    /\ LET frame == [Idle EXCEPT !.op = "send_message",
                        !.args = [NoArgs EXCEPT !.cid = conversation_id,
                                     !.text = message_content,
                                     !.rt = response_time],
                        !.log = <<Ext("find_by_id", conversation_id)>>]
           conversation == find_by_id(store, conversation_id)
       IN  IF NotFound(conversation)
           THEN calls' = [calls EXCEPT ![p] = Raise(frame, "ValueError")]
           ELSE calls' = [calls EXCEPT ![p] =
                    [frame EXCEPT !.pc = "analyze", !.conv = conversation,
                                  !.pre = conversation]]
    /\ UNCHANGED <<store, attrs>>

\* (variant) the response time is not carried into the analysis
UserMessage_no_rt(message_content, analysis_data, response_time) ==
    Message("user", message_content, Some(MessageAnalysis(analysis_data, None)))

\* lines 93-106: the analysed user message
UserMessage(message_content, analysis_data, response_time) ==
    Message("user", message_content,
            Some(MessageAnalysis(analysis_data, response_time)))

\* lines 120-124: the assistant message
AiMessage(ai_response) == Message("assistant", ai_response, None)

\* (variant) the topic is passed where the level belongs
AnalyzeArgs_topic(conversation) == conversation.topic

\* lines 89-92: the level passed to ai_service.analyze_message
AnalyzeArgs(conversation) == conversation.level

\* (variant) the history is taken before the user message is appended
ChatHistory_without_user(conversation) ==
    get_chat_history([conversation EXCEPT
        !.messages = SubSeq(@, 1, Len(@) - 1)])

\* line 112: the history passed to ai_service.chat
ChatHistory(conversation) == get_chat_history(conversation)

\* lines 113-117: the topic and level passed to ai_service.chat
ChatArgs(conversation) == <<conversation.topic, conversation.level>>

\* lines 88-109: analysis call, user message appended in memory
analyze_ok(p, frame) ==
    /\ \E data \in AnalysisResults :
          calls' = [calls EXCEPT ![p] =
              [frame EXCEPT !.pc = "chat",
                  !.conv = Some(add_message(frame.conv[1],
                      UserMessage(frame.args.text, data, frame.args.rt)))]]
    /\ UNCHANGED store

\* (variant) the dialogue call is still made after the analysis failed
analyze_failed_then_chat(p, frame) ==
    /\ calls' = [calls EXCEPT ![p] =
          Raise([frame EXCEPT !.log = Append(@, Ext("chat",
                                                    ChatArgs(frame.conv[1])))],
                "CapabilityFailure")]
    /\ UNCHANGED store

analyze_failed(p, frame) ==
    /\ calls' = [calls EXCEPT ![p] = Raise(frame, "CapabilityFailure")]
    /\ UNCHANGED store

send_analyze(p) ==
    /\ calls[p].op = "send_message" /\ calls[p].pc = "analyze"
    /\ LET frame == [calls[p] EXCEPT
                        !.log = Append(@, Ext("analyze_message",
                                              AnalyzeArgs(calls[p].conv[1])))]
       IN  analyze_ok(p, frame) \/ analyze_failed(p, frame)
    /\ UNCHANGED <<attrs, ncalls>>

\* (variant) the score is computed before the turn's messages are appended
Scored_stale(conv, ai_message) ==
    update_score(add_message(conv, ai_message),
        calculate_overall_score(SubSeq(conv.messages, 1, Len(conv.messages) - 1)))

\* lines 126-133: assistant message appended, score recomputed and replaced
Scored(conv, ai_message) ==
    LET conv1 == add_message(conv, ai_message)
    IN  update_score(conv1, calculate_overall_score(conv1.messages))

\* lines 111-133: dialogue call over the chat history
chat_ok(p, frame) ==
    /\ \E ai_response \in Replies :
          calls' = [calls EXCEPT ![p] =
              [frame EXCEPT !.pc = "update",
                  !.log = Append(@, Ext("calculate_overall_score",
                                        frame.args.cid)),
                  !.reply = Some(ai_response),
                  !.conv = Some(Scored(frame.conv[1], AiMessage(ai_response)))]]
    /\ UNCHANGED store

\* (variant) the half turn is saved when the dialogue call fails
chat_failed_persisting(p, frame) ==
    /\ calls' = [calls EXCEPT ![p] = Raise(frame, "CapabilityFailure")]
    /\ store' = repo_update(store, frame.args.cid, frame.conv[1])

chat_failed(p, frame) ==
    /\ calls' = [calls EXCEPT ![p] = Raise(frame, "CapabilityFailure")]
    /\ UNCHANGED store

\* (variant) the dialogue call is made a second time
send_chat_twice(p) ==
    /\ calls[p].op = "send_message" /\ calls[p].pc = "chat"
    /\ LET frame == [calls[p] EXCEPT
                        !.history = ChatHistory(calls[p].conv[1]),
                        !.log = @ \o <<Ext("chat", ChatArgs(calls[p].conv[1])),
                                       Ext("chat", ChatArgs(calls[p].conv[1]))>>]
       IN  chat_ok(p, frame) \/ chat_failed(p, frame)
    /\ UNCHANGED <<attrs, ncalls>>

send_chat(p) ==
    /\ calls[p].op = "send_message" /\ calls[p].pc = "chat"
    /\ LET frame == [calls[p] EXCEPT
                        !.history = ChatHistory(calls[p].conv[1]),
                        !.log = Append(@, Ext("chat", ChatArgs(calls[p].conv[1])))]
       IN  chat_ok(p, frame) \/ chat_failed(p, frame)
    /\ UNCHANGED <<attrs, ncalls>>

\* lines 139-143: the returned dict
TurnResult(conversation) ==
    LET n == Len(conversation.messages)
    IN  [user_message |-> conversation.messages[n - 1],
         ai_message |-> conversation.messages[n],
         overall_score |-> conversation.score[1]]

\* (variant) the update is keyed by the most recently created conversation
update_ok_latest(p, frame) ==
    /\ store' = repo_update(store, Cardinality(DOMAIN store), frame.conv[1])
    /\ calls' = [calls EXCEPT ![p] = Return(frame, TurnResult(frame.conv[1]))]

\* lines 135-143: the store update, then the result
update_ok(p, frame) ==
    /\ store' = repo_update(store, frame.args.cid, frame.conv[1])
    /\ calls' = [calls EXCEPT ![p] = Return(frame, TurnResult(frame.conv[1]))]

\* (variant) the failure of the store update is swallowed
update_failed_swallowed(p, frame) ==
    /\ calls' = [calls EXCEPT ![p] = Return(frame, TurnResult(frame.conv[1]))]
    /\ UNCHANGED store

update_failed(p, frame) ==
    /\ calls' = [calls EXCEPT ![p] = Raise(frame, "StoreFailure")]
    /\ UNCHANGED store

send_update(p) ==
    /\ calls[p].op = "send_message" /\ calls[p].pc = "update"
    /\ LET frame == [calls[p] EXCEPT
                        !.log = Append(@, Ext("update", calls[p].args.cid))]
       IN  update_ok(p, frame) \/ update_failed(p, frame)
    /\ UNCHANGED <<attrs, ncalls>>

\* -------------------------------------------------------- get_conversation
\* (variant) an absent conversation is an error, as in send_message
Lookup_raising(frame, conversation) ==
    IF conversation = None THEN Raise(frame, "ValueError")
    ELSE Return(frame, conversation)

\* line 149: the lookup result is returned as it is, None included
Lookup(frame, conversation) == Return(frame, conversation)

\* lines 145-149
get_conversation(p, conversation_id) ==
    /\ CanBegin(p)
    /\ ncalls' = ncalls + 1
    /\ calls' = [calls EXCEPT ![p] =
          Lookup([Idle EXCEPT !.op = "get_conversation",
                     !.args = [NoArgs EXCEPT !.cid = conversation_id],
                     !.log = <<Ext("find_by_id", conversation_id)>>],
                 find_by_id(store, conversation_id))]
    /\ UNCHANGED <<store, attrs>>

\* -------------------------------------------------- get_user_conversations
\* (variant) skip and limit are passed in each other's place
get_user_conversations_swapped(p, user_id, skip, limit) ==
    /\ CanBegin(p)
    /\ ncalls' = ncalls + 1
    /\ calls' = [calls EXCEPT ![p] =
          Return([Idle EXCEPT !.op = "get_user_conversations",
                     !.args = [NoArgs EXCEPT !.user = user_id, !.skip = skip,
                                  !.limit = limit],
                     !.log = <<Ext("find_by_user_id", <<user_id, limit, skip>>)>>],
                 find_by_user_id(store, user_id, limit, skip))]
    /\ UNCHANGED <<store, attrs>>

\* lines 151-160
get_user_conversations(p, user_id, skip, limit) ==
    /\ CanBegin(p)
    /\ ncalls' = ncalls + 1
    /\ calls' = [calls EXCEPT ![p] =
          Return([Idle EXCEPT !.op = "get_user_conversations",
                     !.args = [NoArgs EXCEPT !.user = user_id, !.skip = skip,
                                  !.limit = limit],
                     !.log = <<Ext("find_by_user_id", <<user_id, skip, limit>>)>>],
                 find_by_user_id(store, user_id, skip, limit))]
    /\ UNCHANGED <<store, attrs>>

\* ------------------------------------------------------ get_user_statistics
\* lines 200-210
get_user_statistics(p, user_id) ==
    /\ CanBegin(p)
    /\ ncalls' = ncalls + 1
    /\ calls' = [calls EXCEPT ![p] =
          Return([Idle EXCEPT !.op = "get_user_statistics",
                     !.args = [NoArgs EXCEPT !.user = user_id],
                     !.log = <<Ext("get_user_statistics", user_id)>>],
                 get_statistics(store, user_id))]
    /\ UNCHANGED <<store, attrs>>

\* ------------------------------------------------------ get_recommendations
\* lines 172-177: load, not found -> ValueError; then self.course_repo is
\* evaluated, an attribute the constructor never sets
get_recommendations(p, conversation_id) ==
    /\ CanBegin(p)
    /\ ncalls' = ncalls + 1
    /\ LET frame == [Idle EXCEPT !.op = "get_recommendations",
                        !.args = [NoArgs EXCEPT !.cid = conversation_id],
                        !.log = <<Ext("find_by_id", conversation_id)>>]
           conversation == find_by_id(store, conversation_id)
       IN  IF conversation = None
           THEN calls' = [calls EXCEPT ![p] = Raise(frame, "ValueError")]
           ELSE IF "course_repo" \notin attrs
           THEN calls' = [calls EXCEPT ![p] =
                    Raise([frame EXCEPT !.conv = conversation,
                                        !.pre = conversation], "AttributeError")]
           ELSE calls' = [calls EXCEPT ![p] =
                    [frame EXCEPT !.pc = "courses", !.conv = conversation,
                                  !.pre = conversation]]
    /\ UNCHANGED <<store, attrs>>

\* lines 177-186: candidate courses, engine call, recommendations appended
rec_courses(p) ==
    /\ calls[p].op = "get_recommendations" /\ calls[p].pc = "courses"
    /\ LET conversation == calls[p].conv[1]
           courses == course_find_by_level(conversation.level)
           recommendations == generate_recommendations(conversation, courses)
       IN  calls' = [calls EXCEPT ![p] =
              [@ EXCEPT !.pc = "update",
                  !.log = @ \o <<Ext("find_by_level", conversation.level),
                                 Ext("generate_recommendations", calls[p].args.cid)>>,
                  !.conv = Some(add_recommendations(conversation, recommendations)),
                  !.result = Some(recommendations)]]
    /\ UNCHANGED <<store, attrs, ncalls>>

\* (variant) recommendations whose course is missing are left out
Detailed_skipping(recommendations, gone) ==
    LET kept == SelectSeq(recommendations, LAMBDA r : r.course_id \notin gone)
    IN  [i \in 1..Len(kept) |->
            [course_id |-> kept[i].course_id, score |-> kept[i].score,
             course |-> course_find_by_id(kept[i].course_id)]]

\* lines 190-196: each new recommendation joined with its course, or with
\* None when the catalogue no longer has the course (gone)
Detailed(recommendations, gone) ==
    [i \in 1..Len(recommendations) |->
        [course_id |-> recommendations[i].course_id,
         score |-> recommendations[i].score,
         course |-> IF recommendations[i].course_id \in gone THEN None
                    ELSE course_find_by_id(recommendations[i].course_id)]]

\* lines 187-198: the store update, then one catalogue lookup per new
\* recommendation; a course may have left the catalogue since find_by_level
rec_update_ok(p, frame) ==
    LET recommendations == frame.result[1]
    IN  /\ store' = repo_update(store, frame.args.cid, frame.conv[1])
        /\ \E gone \in SUBSET {recommendations[i].course_id :
                                  i \in 1..Len(recommendations)} :
              calls' = [calls EXCEPT ![p] =
                  Return([frame EXCEPT !.log = @ \o
                             [i \in 1..Len(recommendations) |->
                                 Ext("course_find_by_id",
                                     recommendations[i].course_id)]],
                         Detailed(recommendations, gone))]

rec_update_failed(p, frame) ==
    /\ calls' = [calls EXCEPT ![p] =
          Raise([frame EXCEPT !.result = None], "StoreFailure")]
    /\ UNCHANGED store

rec_update(p) ==
    /\ calls[p].op = "get_recommendations" /\ calls[p].pc = "update"
    /\ LET frame == [calls[p] EXCEPT
                        !.log = Append(@, Ext("update", calls[p].args.cid))]
       IN  rec_update_ok(p, frame) \/ rec_update_failed(p, frame)
    /\ UNCHANGED <<attrs, ncalls>>

Next ==
    \/ \E p \in Workers, u \in Users, t \in Topics, l \in LevelInputs :
          create_conversation(p, u, t, l)
    \/ \E p \in Workers, c \in CidInputs, t \in Texts, rt \in ResponseTimes :
          send_message(p, c, t, rt)
    \/ \E p \in Workers : send_analyze(p)
    \/ \E p \in Workers : send_chat(p)
    \/ \E p \in Workers : send_update(p)
    \/ \E p \in Workers, c \in CidInputs : get_conversation(p, c)
    \/ \E p \in Workers, u \in Users, sk \in Skips, li \in Limits :
          get_user_conversations(p, u, sk, li)
    \/ \E p \in Workers, u \in Users : get_user_statistics(p, u)
    \/ \E p \in Workers, c \in CidInputs : get_recommendations(p, c)
    \/ \E p \in Workers : rec_courses(p)
    \/ \E p \in Workers : rec_update(p)

Spec == Init /\ [][Next]_vars

\* ------------------------------------------------------- listing scenario
\* The read-only entry points against a store that already holds
\* ListedConvs conversations of "u1" and one of "u2", as left by earlier
\* create_conversation calls.
ListedStore ==
    [i \in 1..(ListedConvs + 1) |->
        [Conversation(IF i = 3 THEN "u2" ELSE "u1", "travel", "N4")
            EXCEPT !.id = Some(i)]]

PageSkips == Skips \cup {2}
PageLimits == Limits \cup {2}

InitListed ==
    /\ store = ListedStore
    /\ attrs = ConstructorAttrs
    /\ calls = [p \in Workers |-> Idle]
    /\ ncalls = 0

NextRead ==
    \/ \E p \in Workers, c \in CidInputs : get_conversation(p, c)
    \/ \E p \in Workers, u \in Users, sk \in PageSkips, li \in PageLimits :
          get_user_conversations(p, u, sk, li)
    \/ \E p \in Workers, u \in Users : get_user_statistics(p, u)

SpecRead == InitListed /\ [][NextRead]_vars

TypeOK == ncalls \in 0..MaxCalls

\* ================================================================ claims
Step(p) == calls'[p] # calls[p]
Begins(p, op) ==
    Step(p) /\ calls[p].pc \in {"idle", "done"} /\ calls'[p].op = op
Finishes(p, op) == Step(p) /\ calls'[p].pc = "done" /\ calls'[p].op = op
Done(p, op, outcome) ==
    calls[p].op = op /\ calls[p].pc = "done" /\ calls[p].outcome = outcome
Writes(log) == Count(log, "update") + Count(log, "create")

\* C1: when send_message returns successfully, the messages stored for the
\* conversation are the messages stored when the call loaded it followed by
\* a "user" message with the given text and an "assistant" message with the
\* dialogue reply, and the stored score is the scoring result over exactly
\* that new sequence.
C1_TurnAppendsTwoAndRescores ==
    [][\A p \in Workers :
        (Finishes(p, "send_message") /\ calls'[p].outcome = "ok") =>
            LET f == calls'[p]
                before == f.pre[1].messages
                after == store'[f.args.cid]
                n == Len(before)
            IN  /\ Len(after.messages) = n + 2
                /\ SubSeq(after.messages, 1, n) = before
                /\ after.messages[n + 1].role = "user"
                /\ after.messages[n + 1].content = f.args.text
                /\ after.messages[n + 2].role = "assistant"
                /\ after.messages[n + 2].content = f.reply[1]
                /\ after.score = Some(calculate_overall_score(after.messages))
                /\ f.result[1].overall_score = after.score[1]]_vars

\* a second turn has been stored on top of a first one
C1_Witness ==
    \E p \in Workers :
        /\ Done(p, "send_message", "ok")
        /\ Len(calls[p].pre[1].messages) = 2
        /\ Len(store[calls[p].args.cid].messages) = 4

\* C2: send_message on an id that is not in the store ends in the not-found
\* ValueError after the single lookup: no analysis call, no dialogue call,
\* no store write, and the store is left as it was.
C2_AbsentIdFailsWithoutEffects ==
    [][\A p \in Workers :
        (Begins(p, "send_message") /\ calls'[p].args.cid \notin DOMAIN store) =>
            /\ calls'[p].pc = "done"
            /\ calls'[p].outcome = "ValueError"
            /\ calls'[p].log = <<Ext("find_by_id", calls'[p].args.cid)>>
            /\ calls'[p].result = None
            /\ store' = store]_vars

\* the id is absent although the store holds another conversation
C2_Witness ==
    \E p \in Workers :
        /\ Done(p, "send_message", "ValueError")
        /\ DOMAIN store # {}
        /\ calls[p].args.cid \notin DOMAIN store

\* C3: no step of a turn before its store update changes the store, and the
\* step in which the dialogue call fails ends the call in an error with no
\* update issued and the store unchanged, although the user message had
\* been appended to the in-memory conversation.
C3_ChatFailureLeavesStoreUntouched ==
    [][\A p \in Workers :
        /\ (Step(p) /\ calls'[p].op = "send_message"
                /\ Count(calls'[p].log, "update") = 0) => store' = store
        /\ (Finishes(p, "send_message") /\ Count(calls'[p].log, "chat") = 1
                /\ calls'[p].outcome # "ok"
                /\ Count(calls'[p].log, "update") = 0) =>
              /\ calls'[p].outcome = "CapabilityFailure"
              /\ calls'[p].result = None
              /\ Len(calls'[p].conv[1].messages)
                    = Len(calls'[p].pre[1].messages) + 1
              /\ store' = store]_vars

\* the dialogue call failed and the stored conversation is the loaded one
C3_Witness ==
    \E p \in Workers :
        /\ Done(p, "send_message", "CapabilityFailure")
        /\ Count(calls[p].log, "chat") = 1
        /\ store[calls[p].args.cid] = calls[p].pre[1]
        /\ calls[p].conv[1].messages # calls[p].pre[1].messages

\* C4 (as claimed): two send_message calls on one conversation that loaded
\* the same stored state and both returned successfully leave the messages
\* of both turns in the store, with the score computed over all of them.
C4_NoLostTurn ==
    \A p, q \in Workers :
        (/\ p # q
         /\ Done(p, "send_message", "ok") /\ Done(q, "send_message", "ok")
         /\ calls[p].args.cid = calls[q].args.cid
         /\ calls[p].pre = calls[q].pre) =>
            LET c == store[calls[p].args.cid]
            IN  /\ Len(c.messages) >= Len(calls[p].pre[1].messages) + 4
                /\ c.score = Some(calculate_overall_score(c.messages))

\* C5: a successful send_message has made, in this order, the lookup, one
\* analysis call, one dialogue call and one store update, the update keyed
\* by the conversation id of the call; it made no other store write.
C5_OneCallEach ==
    \A p \in Workers :
        Done(p, "send_message", "ok") =>
            /\ Count(calls[p].log, "analyze_message") = 1
            /\ Count(calls[p].log, "chat") = 1
            /\ SelectSeq(calls[p].log, LAMBDA e : e.fn \in {"update", "create"})
                  = <<Ext("update", calls[p].args.cid)>>

\* a successful turn on the second conversation
C5_Witness ==
    \E p \in Workers : Done(p, "send_message", "ok") /\ calls[p].args.cid = 2

\* C6: send_message finishes with a result exactly when it finishes without
\* error; then the store update was its last step and the stored
\* conversation ends with the returned user and assistant messages and
\* carries the returned score.  When the store update fails the call ends
\* in that error without a result and the store is unchanged.
C6_AllOrNothing ==
    [][\A p \in Workers :
        Finishes(p, "send_message") =>
            LET f == calls'[p]
            IN  /\ (f.outcome = "ok") <=> (f.result # None)
                /\ f.outcome = "ok" =>
                      LET c == store'[f.args.cid]
                          n == Len(c.messages)
                      IN  /\ f.log[Len(f.log)] = Ext("update", f.args.cid)
                          /\ n >= 2
                          /\ f.result[1].user_message = c.messages[n - 1]
                          /\ f.result[1].ai_message = c.messages[n]
                          /\ f.result[1].user_message.role = "user"
                          /\ f.result[1].ai_message.role = "assistant"
                          /\ c.score = Some(f.result[1].overall_score)
                /\ Count(f.log, "update") = 1 /\ f.outcome # "ok" =>
                      /\ f.outcome = "StoreFailure"
                      /\ store' = store]_vars

\* a turn whose store update failed was retried by the other worker from
\* the same stored state, and the store holds exactly one more turn
C6_Witness ==
    \E p, q \in Workers :
        /\ p # q
        /\ Done(q, "send_message", "StoreFailure")
        /\ Done(p, "send_message", "ok")
        /\ calls[p].args = calls[q].args
        /\ calls[p].pre = calls[q].pre
        /\ Len(store[calls[p].args.cid].messages)
              = Len(calls[q].pre[1].messages) + 2

\* C7 (as claimed): with only the constructor's attributes, a finished
\* get_recommendations on an existing conversation did not fail inside the
\* controller; when it returned, it made one engine call and one store
\* update carrying the stored recommendations followed by the new ones, and
\* returned one entry per new recommendation.
C7_RecommendationsComplete ==
    \A p \in Workers :
        (/\ calls[p].op = "get_recommendations" /\ calls[p].pc = "done"
         /\ calls[p].pre # None
         /\ attrs = ConstructorAttrs) =>
            /\ calls[p].outcome # "AttributeError"
            /\ calls[p].outcome = "ok" =>
                  LET old == calls[p].pre[1].recommendations
                      new == calls[p].conv[1].recommendations
                  IN  /\ Count(calls[p].log, "find_by_level") = 1
                      /\ Count(calls[p].log, "generate_recommendations") = 1
                      /\ Count(calls[p].log, "update") = 1
                      /\ SubSeq(new, 1, Len(old)) = old
                      /\ Len(calls[p].result[1]) = Len(new) - Len(old)

\* C8: get_conversation returns what the lookup returned, the absent value
\* for an absent id, without an error and without a store write, while
\* send_message on an absent id ends in the not-found ValueError.
C8_LookupAbsentIsNotAnError ==
    [][\A p \in Workers :
        /\ Begins(p, "get_conversation") =>
              /\ calls'[p].pc = "done"
              /\ calls'[p].outcome = "ok"
              /\ calls'[p].result = Some(find_by_id(store, calls'[p].args.cid))
              /\ (calls'[p].args.cid \notin DOMAIN store)
                    => calls'[p].result = Some(None)
              /\ Writes(calls'[p].log) = 0
              /\ store' = store
        /\ (Begins(p, "send_message") /\ calls'[p].args.cid \notin DOMAIN store)
              => calls'[p].outcome = "ValueError"]_vars

\* both calls were made on the same absent id
C8_Witness ==
    \E p, q \in Workers :
        /\ Done(p, "get_conversation", "ok") /\ calls[p].result = Some(None)
        /\ Done(q, "send_message", "ValueError")
        /\ calls[p].args.cid = calls[q].args.cid
        /\ calls[p].args.cid \notin DOMAIN store

\* C9: create_conversation never ends in the not-found error and makes at
\* most one store create; when it returns, it made exactly one, and the
\* conversation it returns is the one now stored under a new id, with the
\* given user id, topic and level, no messages, no recommendations and no
\* score, every other stored conversation being unchanged.
C9_CreateStoresEmptyConversation ==
    [][\A p \in Workers :
        Finishes(p, "create_conversation") =>
            LET f == calls'[p]
            IN  /\ f.outcome # "ValueError"
                /\ Count(f.log, "create") <= 1
                /\ Count(f.log, "update") = 0
                /\ f.outcome = "ok" =>
                      LET c == f.result[1]
                      IN  /\ Count(f.log, "create") = 1
                          /\ c.user_id = f.args.user
                          /\ c.topic = f.args.topic
                          /\ c.level = f.args.level
                          /\ c.messages = <<>>
                          /\ c.recommendations = <<>>
                          /\ c.score = None
                          /\ c.id # None
                          /\ c.id[1] \notin DOMAIN store
                          /\ DOMAIN store' = DOMAIN store \cup {c.id[1]}
                          /\ store'[c.id[1]] = c
                          /\ \A i \in DOMAIN store : store'[i] = store[i]]_vars

\* a second conversation was created next to one that already has a turn
C9_Witness ==
    \E p \in Workers :
        /\ Done(p, "create_conversation", "ok")
        /\ calls[p].result[1].id = Some(2)
        /\ Len(store[1].messages) = 2
        /\ store[2].messages = <<>>

\* C10 (as claimed): get_user_conversations with skip < 0 or limit <= 0 and
\* create_conversation with a level outside the level set end in a
\* validation error without any call to a collaborator.
C10_MalformedArgumentsRejected ==
    \A p \in Workers :
        /\ (/\ calls[p].op = "get_user_conversations"
            /\ (calls[p].args.skip < 0 \/ calls[p].args.limit <= 0)) =>
              (calls[p].outcome = "ValidationError" /\ calls[p].log = <<>>)
        /\ (/\ calls[p].op = "create_conversation"
            /\ calls[p].args.level \notin Levels) =>
              (calls[p].outcome = "ValidationError" /\ calls[p].log = <<>>)
C13_AnalysisFailureStopsTheTurn ==
    [][\A p \in Workers :
        /\ (Step(p) /\ calls'[p].op = "send_message"
                /\ calls'[p].pc \in {"analyze", "chat"}) => store' = store
        /\ (Finishes(p, "send_message")
                /\ calls'[p].outcome = "CapabilityFailure"
                /\ calls'[p].conv[1].messages = calls'[p].pre[1].messages) =>
              LET f == calls'[p]
              IN  /\ f.log = <<Ext("find_by_id", f.args.cid),
                               Ext("analyze_message", f.pre[1].level)>>
                  /\ Count(f.log, "chat") = 0
                  /\ Count(f.log, "update") = 0
                  /\ f.result = None
                  /\ store' = store]_vars

\* the analysis of a second turn failed and the first turn is still stored
C13_Witness ==
    \E p \in Workers :
        /\ Done(p, "send_message", "CapabilityFailure")
        /\ Count(calls[p].log, "chat") = 0
        /\ Len(calls[p].pre[1].messages) = 2
        /\ store[calls[p].args.cid] = calls[p].pre[1]
\* the external calls of one turn, in the order of lines 84-136
TurnOrder ==
    <<"find_by_id", "analyze_message", "chat", "calculate_overall_score",
      "update">>

\* C14: the external calls a send_message call has made so far are an
\* initial part of load, analysis, dialogue, scoring, store update, each
\* made once the previous one returned; the history passed to the dialogue
\* call is the loaded conversation's messages in stored order followed by
\* the new user message, and nothing after it.
C14_StepsInOrder ==
    \A p \in Workers :
        calls[p].op = "send_message" =>
            LET f == calls[p]
                names == [i \in 1..Len(f.log) |-> f.log[i].fn]
            IN  /\ Len(names) <= Len(TurnOrder)
                /\ names = SubSeq(TurnOrder, 1, Len(names))
                /\ f.pc = "analyze" => Len(names) = 1
                /\ f.pc = "chat" => Len(names) = 2
                /\ f.pc = "update" => Len(names) = 4
                /\ f.outcome = "ok" => Len(names) = 5
                /\ Len(names) >= 3 =>
                      /\ f.history = get_chat_history(f.pre[1])
                            \o <<[role |-> "user", content |-> f.args.text]>>
                      /\ Len(f.history) = Len(f.pre[1].messages) + 1
                      /\ f.history[Len(f.history)].role = "user"

\* the dialogue call of a second turn got the first turn and the new message
C14_Witness ==
    \E p \in Workers :
        /\ Done(p, "send_message", "ok")
        /\ Len(calls[p].history) = 3
        /\ calls[p].history[2].role = "assistant"
IsPrefix(a, b) == Len(a) <= Len(b) /\ SubSeq(b, 1, Len(a)) = a

\* C15 (as claimed): stored messages are append-only: whatever step is
\* taken, every stored conversation stays stored and the messages stored
\* for it before the step are a prefix of those stored after it.
C15_MessagesAppendOnly ==
    [][\A i \in DOMAIN store :
        /\ i \in DOMAIN store'
        /\ IsPrefix(store[i].messages, store'[i].messages)]_vars

\* C16: every stored conversation has no score when it has no messages and
\* otherwise the scoring result over exactly its stored messages.
C16_ScoreIsDerived ==
    \A i \in DOMAIN store :
        /\ store[i].messages = <<>> => store[i].score = None
        /\ store[i].messages # <<>> =>
              store[i].score = Some(calculate_overall_score(store[i].messages))

\* a turn and a recommendation request overlapped on one conversation and
\* the request's write came last: messages and score are both the loaded ones
C16_Witness ==
    \E p, q \in Workers :
        /\ Done(p, "get_recommendations", "ok")
        /\ Done(q, "send_message", "ok")
        /\ calls[p].args.cid = calls[q].args.cid
        /\ store[calls[p].args.cid].messages = <<>>
        /\ store[calls[p].args.cid].score = None
        /\ store[calls[p].args.cid].recommendations # <<>>

\* C17: send_message and get_recommendations keep the loaded level, topic,
\* user id and id in their in-memory conversation and in what they write,
\* these being the stored values; the level passed to the analysis call and
\* the topic and level passed to the dialogue call are the stored ones.
C17_LevelTopicUserUnchanged ==
    [][\A p \in Workers :
        (/\ Step(p)
         /\ calls'[p].op \in {"send_message", "get_recommendations"}
         /\ calls'[p].pre # None) =>
            LET f == calls'[p]
                old == store[f.args.cid]
                new == store'[f.args.cid]
            IN  /\ f.pre[1].level = old.level
                /\ f.conv[1].level = old.level
                /\ f.conv[1].topic = old.topic
                /\ f.conv[1].user_id = old.user_id
                /\ f.conv[1].id = old.id
                /\ new.level = old.level
                /\ new.topic = old.topic
                /\ new.user_id = old.user_id
                /\ new.id = old.id
                /\ \A k \in 1..Len(f.log) :
                      /\ f.log[k].fn = "analyze_message"
                            => f.log[k].key = old.level
                      /\ f.log[k].fn = "chat"
                            => f.log[k].key = <<old.topic, old.level>>
                      /\ f.log[k].fn = "find_by_level"
                            => f.log[k].key = old.level]_vars

\* a turn and a recommendation request were both written back
C17_Witness ==
    \E p, q \in Workers :
        /\ Done(p, "send_message", "ok")
        /\ Done(q, "get_recommendations", "ok")
        /\ calls[p].args.cid = calls[q].args.cid
        /\ calls[p].log[2] = Ext("analyze_message",
                                  store[calls[p].args.cid].level)
Alternating(messages) ==
    /\ Len(messages) % 2 = 0
    /\ \A k \in 1..Len(messages) :
          IF k % 2 = 1
          THEN /\ messages[k].role = "user"
               /\ messages[k].analysis # None
               /\ messages[k].analysis[1].response_time \in ResponseTimes
          ELSE /\ messages[k].role = "assistant"
               /\ messages[k].analysis = None

\* C18: after every step each stored conversation has an even number of
\* messages alternating "user", "assistant" from a "user" message, every
\* "user" message carrying an analysis and no "assistant" message carrying
\* one; the analysis of the user message a successful turn stores carries
\* the response time given to that call, or none when none was given.
C18_StoredMessagesAlternate ==
    [][/\ \A i \in DOMAIN store' : Alternating(store'[i].messages)
       /\ \A p \in Workers :
             (Finishes(p, "send_message") /\ calls'[p].outcome = "ok") =>
                 LET f == calls'[p]
                     msgs == store'[f.args.cid].messages
                 IN  msgs[Len(msgs) - 1].analysis[1].response_time
                         = f.args.rt]_vars

\* two turns are stored, one with a response time and one without
C18_Witness ==
    \E i \in DOMAIN store :
        /\ Len(store[i].messages) = 4
        /\ store[i].messages[1].analysis[1].response_time # None
        /\ store[i].messages[3].analysis[1].response_time = None

Contains(seq, sub) ==
    \E k \in 0..(Len(seq) - Len(sub)) : SubSeq(seq, k + 1, k + Len(sub)) = sub

TwoPages(p, q) ==
    /\ Done(p, "get_user_conversations", "ok")
    /\ Done(q, "get_user_conversations", "ok")
    /\ calls[p].args.user = calls[q].args.user
    /\ calls[p].args.skip = 0 /\ calls[p].args.limit = 2
    /\ calls[q].args.skip = 2 /\ calls[q].args.limit = 2

PagesAdjoin ==
    \A p, q \in Workers :
        (TwoPages(p, q) /\ Len(OfUser(store, calls[p].args.user, 1)) >= 4) =>
            LET first == calls[p].result[1]
                second == calls[q].result[1]
            IN  /\ Len(first) = 2 /\ Len(second) = 2
                /\ first \o second
                      = SubSeq(OfUser(store, calls[p].args.user, 1), 1, 4)
                /\ \A a, b \in 1..2 : first[a].id # second[b].id

\* C19: get_conversation, get_user_conversations and get_user_statistics
\* each finish in their first step without error, having made exactly one
\* store read with the arguments they were given and no write, return what
\* the store returned and leave the store unchanged; so against the
\* unchanged store the page (skip 0, limit 2) and the page (skip 2, limit 2)
\* of a user with at least four conversations are the first two and the
\* next two in the store's order, without overlap or gap.
C19_ReadOnlyPassthroughs ==
    [][/\ \A p \in Workers :
             LET f == calls'[p]
             IN  /\ Begins(p, "get_conversation") =>
                       /\ f.pc = "done" /\ f.outcome = "ok"
                       /\ f.log = <<Ext("find_by_id", f.args.cid)>>
                       /\ f.result = Some(find_by_id(store, f.args.cid))
                       /\ store' = store
                 /\ Begins(p, "get_user_conversations") =>
                       /\ f.pc = "done" /\ f.outcome = "ok"
                       /\ f.log = <<Ext("find_by_user_id",
                                <<f.args.user, f.args.skip, f.args.limit>>)>>
                       /\ f.result = Some(find_by_user_id(store, f.args.user,
                                               f.args.skip, f.args.limit))
                       /\ store' = store
                 /\ Begins(p, "get_user_statistics") =>
                       /\ f.pc = "done" /\ f.outcome = "ok"
                       /\ f.log = <<Ext("get_user_statistics", f.args.user)>>
                       /\ f.result = Some(get_statistics(store, f.args.user))
                       /\ store' = store
       /\ PagesAdjoin']_vars

\* both pages of the user with ListedConvs conversations have been returned
C19_Witness ==
    \E p, q \in Workers :
        /\ TwoPages(p, q)
        /\ calls[p].args.user = "u1"
        /\ Len(OfUser(store, "u1", 1)) = ListedConvs
        /\ calls[p].result[1][2].id = Some(2)
        /\ calls[q].result[1][1].id = Some(4)
====
